---- MODULE Spec2Model ----
(***************************************************************************)
(* A model of src/dy.py: the dy_file workflow (key resolution, hashing,    *)
(* report lookup, upload, polling, behaviour fetch, report generation),    *)
(* the poller _get_analysis_report on its own, and the pure report         *)
(* renderer _generate_report.                                              *)
(*                                                                         *)
(* Python values are modelled as follows.  None is the record None.  A     *)
(* decoded JSON body is Dict(items) or List(items); items is a TLA+ record *)
(* (a dict's keys are its DOMAIN) or a sequence.  Below the top level the  *)
(* shapes are those of the remote contract, so nested dicts are plain      *)
(* records and nested lists plain sequences.  Strings that the code        *)
(* searches (process names, registry keys) are sequences of characters.    *)
(***************************************************************************)
EXTENDS Integers, Sequences, FiniteSets, TLC

VARIABLES
    pc,              \* position in dy_file / _get_analysis_report / the report driver
    api_key,         \* dy_file's api_key argument ("None" is Python's None)
    env_key,         \* os.environ.get('VT_API_KEY') ("None" when unset)
    file_kind,       \* what file_path references: "regular", "directory", "missing"
    file_bytes,      \* the content of the file
    return_report,   \* dy_file's return_report argument
    headers,         \* the x-apikey header value ("None" before it is set)
    results,         \* dy_file's results dict / _generate_report's analysis_results
    hashes,          \* the hash triple, None before it is computed
    hash_calls,      \* number of calls of _calculate_file_hash
    existing_report, \* value returned by _get_file_report
    analysis_id,     \* upload_response["data"]["id"]
    max_attempts,    \* _get_analysis_report's max_attempts
    attempt,         \* loop variable of _get_analysis_report
    waits,           \* number of time.sleep(wait_time) calls
    response,        \* the last HTTP response received
    poll_result,     \* value returned by _get_analysis_report
    calls,           \* the remote requests issued so far, in order
    error,           \* the exception raised, NoError while none
    returned,        \* the value dy_file returned, None while it has not
    hash_seed,       \* the interpreter's string-hash seed (order of set iteration)
    report,          \* text last produced by _generate_report in the report driver
    prev_report,     \* text produced by the call before that one
    report_calls     \* number of _generate_report calls in the report driver

vars == <<pc, api_key, env_key, file_kind, file_bytes, return_report, headers,
          results, hashes, hash_calls, existing_report, analysis_id,
          max_attempts, attempt, waits, response, poll_result, calls, error,
          returned, hash_seed, report, prev_report, report_calls>>

-----------------------------------------------------------------------------
(* Bounds of the model *)

MaxPollerAttempts == 4
MaxSandboxes == 4
MaxTotal == 10
MaxMalicious == 5
MaxSuspicious == 2
MaxListLen == 12

(* Program constants *)

DefaultMaxAttempts == 10
SandboxLimit == 3
HighRiskThreshold == 50
MediumRiskThreshold == 10

-----------------------------------------------------------------------------
(* Python values *)

None == [type |-> "NoneType"]
Dict(items) == [type |-> "dict", items |-> items]
List(items) == [type |-> "list", items |-> items]
EmptyObject == Dict([k \in {} |-> 0])
EmptyList == List(<< >>)

\* bool(v): None, an empty dict and an empty list are falsy
Truthy(v) == v.type # "NoneType" /\ DOMAIN v.items # {}

\* d.get(key, default) on a dict held as a record
Get(d, key, default) == IF key \in DOMAIN d THEN d[key] ELSE default

NoError == [type |-> "none"]

-----------------------------------------------------------------------------
(* The remote service: what an HTTP response can be *)

StatusCodes == {200, 204, 404, 500}
Texts == {"body-1", "body-2"}
ApiKeyArgs == {"None", "arg-key"}
EnvKeys == {"None", "env-key"}
FileKinds == {"regular", "directory", "missing"}
FileContents == {<< >>, <<7>>}
AnalysisIds == {"analysis-1"}
AnalysisStatuses == {"queued", "in-progress", "completed"}

StatsHigh == [total |-> 10, malicious |-> 3, suspicious |-> 2, undetected |-> 5]
StatsClean == [total |-> 10, malicious |-> 0, suspicious |-> 0, undetected |-> 10]

\* a response with a status other than 200: only status_code and text are read
FailureResponses ==
    {[status_code |-> s, text |-> t, json |-> None] : s \in StatusCodes \ {200}, t \in Texts}
OkResponses(bodies) ==
    {[status_code |-> 200, text |-> "json", json |-> b] : b \in bodies}

\* GET /files/{sha256}: the static report; an empty object and an empty list
\* are bodies a 200 response can also carry
FileReportBodies ==
    {Dict([data |-> [attributes |-> [stats |-> s]]]) : s \in {StatsHigh, StatsClean}}
        \cup {EmptyObject, EmptyList}
\* POST /files: {data: {id}}
UploadBodies == {Dict([data |-> [id |-> i]]) : i \in AnalysisIds}
\* GET /analyses/{id}: {data: {attributes: {status, stats}}}
AnalysisBodies ==
    {Dict([data |-> [attributes |-> [status |-> st, stats |-> s]]]) :
        st \in AnalysisStatuses, s \in {StatsHigh, StatsClean}}

\* sandbox records of GET /files/{sha256}/behaviours
SandboxPlain ==
    [attributes |-> [sandbox_name |-> "Alpha",
                     processes |-> <<[name |-> <<"s","v","c">>, pid |-> 4]>>]]
SandboxHttp ==
    [attributes |-> [sandbox_name |-> "Beta",
                     network |-> [dns |-> <<[hostname |-> "evil.example"]>>,
                                  http |-> <<[url |-> "http://evil.example"]>>]]]
SandboxInjection ==
    [attributes |-> [sandbox_name |-> "Gamma",
                     processes |-> <<[name |-> <<"I","N","J","E","C","T","I","O","N">>,
                                      pid |-> 7],
                                     [pid |-> 8]>>]]
SandboxAutorun ==
    [attributes |-> [registry |-> [keys_set |-> << <<"\\","R","u","n">>, <<"C","L","S">> >>],
                     files |-> [written |-> <<"a.tmp">>]]]
\* a registry key with "startup" in mixed case, a process name that stops
\* short of "injection"
SandboxStartup ==
    [attributes |-> [sandbox_name |-> "Delta",
                     registry |-> [keys_set |-> << <<"S","t","a","r","t","U","p">> >>],
                     processes |-> <<[name |-> <<"i","n","j","e","c","t">>, pid |-> 9]>>]]
\* "injection" and "run" in mixed case inside longer strings, an empty http list
SandboxMixedCase ==
    [attributes |-> [sandbox_name |-> "Epsilon",
                     processes |-> <<[name |-> <<"x","I","n","j","E","c","T","i","O","n","x">>,
                                      pid |-> 10]>>,
                     registry |-> [keys_set |-> << <<"t","R","U","N","k">> >>],
                     network |-> [http |-> << >>]]]
\* a record without attributes
SandboxBare == [id |-> "bare"]
\* a record whose five lists have p, d, h, r and f entries
SandboxWithLists(p, d, h, r, f) ==
    [attributes |->
        [sandbox_name |-> "Lists",
         processes |-> [j \in 1..p |-> [name |-> <<"p", ToString(j)>>, pid |-> j]],
         network |-> [dns |-> [j \in 1..d |-> [hostname |-> "host-" \o ToString(j)]],
                      http |-> [j \in 1..h |-> [url |-> "url-" \o ToString(j)]]],
         registry |-> [keys_set |-> [j \in 1..r |-> <<"k", ToString(j)>>]],
         files |-> [written |-> [j \in 1..f |-> "file-" \o ToString(j)]]]]
\* GET /files/{sha256}/behaviours: {data: [...]}
BehaviorBodies ==
    {Dict([data |-> d]) :
        d \in {<< >>, <<SandboxHttp>>, <<SandboxInjection, SandboxHttp>>}}

NoResponse == [status_code |-> 0, text |-> "", json |-> None]

-----------------------------------------------------------------------------
(* Exceptions and function outcomes *)

Return(v) == [raised |-> FALSE, value |-> v, error |-> NoError]
Raise(e) == [raised |-> TRUE, value |-> None, error |-> e]

ValueError == [type |-> "ValueError"]
FileNotFoundError == [type |-> "FileNotFoundError"]
TimeoutError(n) == [type |-> "TimeoutError", max_attempts |-> n]
\* Exception(f"... with status code {response.status_code}: {response.text}")
RemoteError(what, resp) ==
    [type |-> "Exception", message |-> what,
     status_code |-> resp.status_code, text |-> resp.text]

-----------------------------------------------------------------------------
(* Hashing *)

\* hashlib digests: an injective function of the algorithm and the bytes
Hexdigest(alg, bytes) == <<alg, bytes>>
NoHash == << >>

\* _calculate_file_hash without the os.path.isfile check
CalculateFileHashUnchecked(kind, bytes) ==
    Return([md5 |-> Hexdigest("md5", bytes),
            sha1 |-> Hexdigest("sha1", bytes),
            sha256 |-> Hexdigest("sha256", bytes)])

\* _calculate_file_hash
CalculateFileHash(kind, bytes) ==
    IF kind # "regular"
    THEN Raise(FileNotFoundError)
    ELSE Return([md5 |-> Hexdigest("md5", bytes),
                 sha1 |-> Hexdigest("sha1", bytes),
                 sha256 |-> Hexdigest("sha256", bytes)])

-----------------------------------------------------------------------------
(* The four remote operations, as functions of the response received *)

\* _get_file_report treating every failure status as an absent report
GetFileReportLenient(resp) ==
    IF resp.status_code = 200 THEN Return(resp.json) ELSE Return(None)

\* _get_file_report
GetFileReport(resp) ==
    IF resp.status_code = 200 THEN Return(resp.json)
    ELSE IF resp.status_code = 404 THEN Return(None)
    ELSE Raise(RemoteError("Failed to get file report", resp))

\* _upload_file
UploadFile(resp) ==
    IF resp.status_code = 200 THEN Return(resp.json)
    ELSE Raise(RemoteError("File upload failed", resp))

\* _get_file_behavior downgrading every failure to "no behavioural data"
GetFileBehaviorLenient(resp) ==
    IF resp.status_code = 200 THEN Return(resp.json) ELSE Return(None)
\* _get_file_behavior raising on 404 as on any other failure
GetFileBehaviorStrict(resp) ==
    IF resp.status_code = 200 THEN Return(resp.json)
    ELSE Raise(RemoteError("Failed to get behavior report", resp))

\* _get_file_behavior
GetFileBehavior(resp) ==
    IF resp.status_code = 200 THEN Return(resp.json)
    ELSE IF resp.status_code = 404 THEN Return(None)
    ELSE Raise(RemoteError("Failed to get behavior report", resp))

\* one iteration of the loop of _get_analysis_report: "return", "sleep" or "raise"
AnalysisCompleted(resp) ==
    resp.status_code = 200 /\ resp.json.items.data.attributes.status = "completed"
\* the loop retrying a failed status query instead of raising
PollStepRetry(resp) ==
    IF resp.status_code = 200
    THEN IF resp.json.items.data.attributes.status = "completed"
         THEN "return"
         ELSE "sleep"
    ELSE "sleep"
PollStep(resp) ==
    IF resp.status_code = 200
    THEN IF resp.json.items.data.attributes.status = "completed"
         THEN "return"
         ELSE "sleep"
    ELSE "raise"

\* range(max_attempts + 1): one attempt too many
AttemptsLeftOffByOne(done, limit) == done <= limit
\* the loop condition of `for attempt in range(max_attempts)`
AttemptsLeft(done, limit) == done < limit

\* `if existing_report:` in dy_file
ExistingReportFound(v) == Truthy(v)

\* the hash _get_file_report is called with (line 48)
LookupKey(h) == h.sha256
\* the behaviour fetch keyed by another digest of the triple
BehaviorKeyMd5(h) == h.md5
\* the hash _get_file_behavior is called with (line 64)
BehaviorKey(h) == h.sha256

\* one entry of the request log
Call(op, hash, id, resp) ==
    [op |-> op, file_hash |-> hash, file_id |-> id,
     status_code |-> resp.status_code,
     completed |-> IF op = "poll" THEN AnalysisCompleted(resp) ELSE FALSE]

-----------------------------------------------------------------------------
(* Strings that are searched: sequences of characters *)

UpperCase == <<"A","B","C","D","E","F","G","H","I","J","K","L","M",
               "N","O","P","Q","R","S","T","U","V","W","X","Y","Z">>
LowerCase == <<"a","b","c","d","e","f","g","h","i","j","k","l","m",
               "n","o","p","q","r","s","t","u","v","w","x","y","z">>

\* str.lower()
LowerChar(c) ==
    IF \E i \in DOMAIN UpperCase : UpperCase[i] = c
    THEN LowerCase[CHOOSE i \in DOMAIN UpperCase : UpperCase[i] = c]
    ELSE c
Lower(str) == [i \in DOMAIN str |-> LowerChar(str[i])]

\* `needle in str`
Contains(needle, str) ==
    \E i \in 1..(Len(str) - Len(needle) + 1) :
        SubSeq(str, i, i + Len(needle) - 1) = needle

StrInjection == <<"i","n","j","e","c","t","i","o","n">>
StrRun == <<"r","u","n">>
StrStartup == <<"s","t","a","r","t","u","p">>
StrEmpty == << >>
StrUnknown == <<"U","n","k","n","o","w","n">>

-----------------------------------------------------------------------------
(* _generate_report *)

EmptyRec == [k \in {} |-> 0]
Range(seq) == {seq[i] : i \in DOMAIN seq}
Min(a, b) == IF a < b THEN a ELSE b
\* seq[:n]
Take(seq, n) == SubSeq(seq, 1, Min(n, Len(seq)))

\* one report.append(...): nl says that the appended string starts with "\n"
Entry(kind, value, nl) == [k |-> kind, v |-> value, nl |-> nl]
Text(str) == Entry("text", str, FALSE)
Heading(str) == Entry("text", str, TRUE)

FlagInjection == "Process injection detected"
FlagPersistence == "Persistence mechanism detected (autorun registry keys)"
FlagNetwork == "Network communication detected"
Flags == {FlagInjection, FlagPersistence, FlagNetwork}

VerdictHigh == "HIGH RISK - This file is likely malicious"
VerdictMedium == "MEDIUM RISK - This file is suspicious and requires further investigation"
VerdictLow == "LOW RISK - This file appears to be clean, but exercise caution"
VerdictUnknown == "UNKNOWN RISK - Insufficient data to determine risk level"

NoDynamicData == "No dynamic analysis data available for this file"
NoBehaviors == "  * No significant suspicious behaviors detected"

ListLimit == 10

\* lines 163-176
FileInfoEntries(file_info) ==
    << Text("=*80"), Text("MALWARE ANALYSIS REPORT"), Text("=*80"),
       Entry("File Name", file_info.name, FALSE),
       Entry("File Size", file_info.size, FALSE),
       Entry("File Path", file_info.path, FALSE),
       Entry("Analysis Time", file_info.analysis_time, FALSE),
       Text(""), Text("File Hashes:"),
       Entry("MD5", file_info.hashes.md5, FALSE),
       Entry("SHA-1", file_info.hashes.sha1, FALSE),
       Entry("SHA-256", file_info.hashes.sha256, FALSE),
       Text("") >>

\* detection_rate = (malicious + suspicious) / total * 100 when total > 0, else 0,
\* held as the exact fraction <<numerator, denominator>>
DetectionRate(malicious, suspicious, total) ==
    IF total > 0 THEN <<(malicious + suspicious) * 100, total>> ELSE <<0, 1>>
\* detection_rate > percent: the boundary falls on the wrong side
RateAbove(rate, percent) == rate[1] > percent * rate[2]
\* detection_rate >= percent
RateAtLeast(rate, percent) == rate[1] >= percent * rate[2]

\* lines 179-204
StatisticsEntries(analysis_results) ==
    LET static == Get(analysis_results, "static_analysis", None) IN
    IF ~Truthy(static) THEN << >>
    ELSE LET static_data == static.items.data IN
         IF "attributes" \notin DOMAIN static_data THEN << >>
         ELSE LET attrs == static_data.attributes IN
              IF "stats" \notin DOMAIN attrs THEN << >>
              ELSE LET stats == attrs.stats
                       total == Get(stats, "total", 0)
                       malicious == Get(stats, "malicious", 0)
                       suspicious == Get(stats, "suspicious", 0)
                       undetected == Get(stats, "undetected", 0)
                   IN << Text("-*80"), Text("DETECTION STATISTICS"), Text("-*80"),
                         Entry("Detection Rate",
                               [rate |-> DetectionRate(malicious, suspicious, total),
                                count |-> malicious + suspicious, total |-> total], FALSE),
                         Entry("Malicious", malicious, FALSE),
                         Entry("Suspicious", suspicious, FALSE),
                         Entry("Undetected", undetected, FALSE),
                         Text("") >>

\* the list rendered without the [:10] slice
ListEntriesUnbounded(heading, kind, values) ==
    IF values = << >> THEN << >>
    ELSE <<Heading(heading)>> \o
         [i \in 1..Len(values) |-> Entry(kind, values[i], FALSE)]

\* `if items: append(heading); for x in items[:10]: append(line(x))`
ListEntries(heading, kind, values) ==
    IF values = << >> THEN << >>
    ELSE <<Heading(heading)>> \o
         [i \in 1..Len(Take(values, ListLimit)) |-> Entry(kind, values[i], FALSE)]

\* f"Sandbox {i+1}", i the index of enumerate
DefaultSandboxName(i) == "Sandbox " \o ToString(i + 1)

\* lines 216-259: the detail block of one sandbox record
SandboxEntries(i, sandbox) ==
    LET attrs == Get(sandbox, "attributes", EmptyRec)
        processes == Get(attrs, "processes", << >>)
        network == Get(attrs, "network", EmptyRec)
        dns_requests == Get(network, "dns", << >>)
        http_requests == Get(network, "http", << >>)
        registry == Get(attrs, "registry", EmptyRec)
        keys_set == Get(registry, "keys_set", << >>)
        files == Get(attrs, "files", EmptyRec)
        files_written == Get(files, "written", << >>)
    IN <<Entry("Sandbox", Get(attrs, "sandbox_name", DefaultSandboxName(i)), FALSE)>>
       \o ListEntries("Processes Created:", "process",
              [j \in DOMAIN processes |->
                  [name |-> Get(processes[j], "name", StrUnknown),
                   pid |-> IF "pid" \in DOMAIN processes[j]
                           THEN ToString(processes[j].pid) ELSE "N/A"]])
       \o ListEntries("DNS Requests:", "dns",
              [j \in DOMAIN dns_requests |-> Get(dns_requests[j], "hostname", "Unknown")])
       \o ListEntries("HTTP Requests:", "http",
              [j \in DOMAIN http_requests |-> Get(http_requests[j], "url", "Unknown")])
       \o ListEntries("Registry Keys Modified:", "registry", keys_set)
       \o ListEntries("Files Written:", "file", files_written)
       \o <<Heading("-*40")>>

\* the sandbox records that get a detail block: dynamic_data[:3]
DetailedSandboxes(dynamic_data) == Take(dynamic_data, SandboxLimit)

RECURSIVE SandboxBlocks(_, _)
\* line 215: the blocks of records i, i+1, ... of the detailed records
SandboxBlocks(detailed, i) ==
    IF i > Len(detailed) THEN << >>
    ELSE SandboxEntries(i - 1, detailed[i]) \o SandboxBlocks(detailed, i + 1)

\* lines 268-289: what one sandbox record appends to behaviors
SandboxBehaviors(sandbox) ==
    LET attrs == Get(sandbox, "attributes", EmptyRec)
        processes == Get(attrs, "processes", << >>)
        registry == Get(attrs, "registry", EmptyRec)
        keys_set == Get(registry, "keys_set", << >>)
        network == Get(attrs, "network", EmptyRec)
        http_requests == Get(network, "http", << >>)
    IN (IF \E j \in DOMAIN processes :
              Contains(StrInjection, Lower(Get(processes[j], "name", StrEmpty)))
        THEN <<FlagInjection>> ELSE << >>)
       \o (IF \E j \in DOMAIN keys_set :
                 \/ Contains(StrRun, Lower(keys_set[j]))
                 \/ Contains(StrStartup, Lower(keys_set[j]))
           THEN <<FlagPersistence>> ELSE << >>)
       \o (IF http_requests # << >> THEN <<FlagNetwork>> ELSE << >>)

\* the summary scanning only the records that got a detail block
ScannedSandboxesTruncated(dynamic_data) == Take(dynamic_data, SandboxLimit)
\* the records the summary scans: `for sandbox in dynamic_data`
ScannedSandboxes(dynamic_data) == dynamic_data

RECURSIVE Behaviors(_, _)
\* line 267: behaviors after scanning records i, i+1, ...
Behaviors(scanned, i) ==
    IF i > Len(scanned) THEN << >>
    ELSE SandboxBehaviors(scanned[i]) \o Behaviors(scanned, i + 1)

\* the interpreter's string-hash seed fixes the iteration order of a set of
\* strings; a seed is held as the order it induces on the flag strings
Seeds == {seed \in [1..3 -> Flags] : \A i, j \in 1..3 : i # j => seed[i] # seed[j]}
\* list(behaviors): the duplicates are kept
ListWithDuplicates(behaviors, seed) == behaviors
\* list(set(behaviors))
ListOfSet(behaviors, seed) == SelectSeq(seed, LAMBDA f : f \in Range(behaviors))

\* lines 262-299
SummaryEntries(dynamic_data, seed) ==
    IF dynamic_data # << >> /\ Len(dynamic_data) > 0
    THEN LET behaviors == ListOfSet(Behaviors(ScannedSandboxes(dynamic_data), 1), seed) IN
         <<Heading("Behavioral Summary:")>> \o
         (IF behaviors # << >>
          THEN [i \in DOMAIN behaviors |-> Entry("behavior", behaviors[i], FALSE)]
          ELSE <<Text(NoBehaviors)>>)
    ELSE << >>

\* the dynamic section without the else branch of lines 300-304
DynamicEntriesSilent(analysis_results, seed) ==
    LET dynamic == Get(analysis_results, "dynamic_analysis", None) IN
    IF Truthy(dynamic) /\ dynamic # None
    THEN LET dynamic_data == dynamic.items.data IN
         IF dynamic_data # << >>
         THEN << Text("-*80"), Text("DYNAMIC ANALYSIS RESULTS"), Text("-*80") >>
              \o SandboxBlocks(DetailedSandboxes(dynamic_data), 1)
              \o SummaryEntries(dynamic_data, seed)
         ELSE << >>
    ELSE << >>

\* lines 207-304
DynamicEntries(analysis_results, seed) ==
    LET dynamic == Get(analysis_results, "dynamic_analysis", None) IN
    IF Truthy(dynamic) /\ dynamic # None
    THEN LET dynamic_data == dynamic.items.data IN
         IF dynamic_data # << >>
         THEN << Text("-*80"), Text("DYNAMIC ANALYSIS RESULTS"), Text("-*80") >>
              \o SandboxBlocks(DetailedSandboxes(dynamic_data), 1)
              \o SummaryEntries(dynamic_data, seed)
         ELSE << >>
    ELSE << Text("-*80"), Text("DYNAMIC ANALYSIS RESULTS"), Text("-*80"),
            Text(NoDynamicData) >>

\* lines 312-330
Verdict(analysis_results) ==
    LET static == Get(analysis_results, "static_analysis", EmptyObject)
        static_data == Get(static.items, "data", EmptyRec)
        attrs == Get(static_data, "attributes", EmptyRec)
        stats == Get(attrs, "stats", EmptyRec)
        total == Get(stats, "total", 0)
        malicious == Get(stats, "malicious", 0)
        suspicious == Get(stats, "suspicious", 0)
    IN IF total > 0
       THEN LET detection_rate == DetectionRate(malicious, suspicious, total) IN
            IF RateAtLeast(detection_rate, HighRiskThreshold) THEN VerdictHigh
            ELSE IF RateAtLeast(detection_rate, MediumRiskThreshold) THEN VerdictMedium
            ELSE VerdictLow
       ELSE VerdictUnknown

\* lines 307-332
ConclusionEntries(analysis_results) ==
    << Heading("=*80"), Text("CONCLUSION"), Text("=*80"),
       Entry("verdict", Verdict(analysis_results), FALSE) >>

\* the list `report` at line 335
ReportEntries(analysis_results, seed) ==
    FileInfoEntries(analysis_results.file_info)
    \o StatisticsEntries(analysis_results)
    \o DynamicEntries(analysis_results, seed)
    \o ConclusionEntries(analysis_results)

RECURSIVE Join(_, _)
\* "\n".join(report), as the sequence of the text's lines: an entry that starts
\* with "\n" contributes an empty line before its own
Join(entries, i) ==
    IF i > Len(entries) THEN << >>
    ELSE (IF entries[i].nl THEN <<[k |-> "text", v |-> ""]>> ELSE << >>)
         \o <<[k |-> entries[i].k, v |-> entries[i].v]>>
         \o Join(entries, i + 1)

GenerateReport(analysis_results, seed) == Join(ReportEntries(analysis_results, seed), 1)

-----------------------------------------------------------------------------
(* dy_file *)

FileInfo(bytes) ==
    [name |-> "sample.bin", size |-> Len(bytes), path |-> "/abs/sample.bin",
     analysis_time |-> "now"]
WithHashes(info, h) ==
    [name |-> info.name, size |-> info.size, path |-> info.path,
     analysis_time |-> info.analysis_time, hashes |-> h]
WithStatic(res, v) == [file_info |-> res.file_info, static_analysis |-> v]
WithDynamic(res, v) ==
    [file_info |-> res.file_info, static_analysis |-> res.static_analysis,
     dynamic_analysis |-> v]
WithReport(res, text) ==
    [file_info |-> res.file_info, static_analysis |-> res.static_analysis,
     dynamic_analysis |-> res.dynamic_analysis, report |-> text]

Fail(e) == pc' = "failed" /\ error' = e

\* lines 20-31
ResolveApiKey ==
    /\ pc = "start"
    /\ IF api_key = "None" /\ env_key = "None"
       THEN Fail(ValueError) /\ UNCHANGED headers
       ELSE /\ headers' = (IF api_key = "None" THEN env_key ELSE api_key)
            /\ pc' = "file_info"
            /\ UNCHANGED error
    /\ UNCHANGED <<api_key, env_key, file_kind, file_bytes, return_report, results,
                   hashes, hash_calls, existing_report, analysis_id, max_attempts,
                   attempt, waits, response, poll_result, calls, returned,
                   hash_seed, report, prev_report, report_calls>>

\* lines 32-39: os.path.getsize raises when the path does not exist
BuildFileInfo ==
    /\ pc = "file_info"
    /\ IF file_kind = "missing"
       THEN Fail(FileNotFoundError) /\ UNCHANGED results
       ELSE /\ results' = [file_info |-> FileInfo(file_bytes)]
            /\ pc' = "hash"
            /\ UNCHANGED error
    /\ UNCHANGED <<api_key, env_key, file_kind, file_bytes, return_report, headers,
                   hashes, hash_calls, existing_report, analysis_id, max_attempts,
                   attempt, waits, response, poll_result, calls, returned,
                   hash_seed, report, prev_report, report_calls>>

\* lines 41-44
CalculateHashes ==
    /\ pc = "hash"
    /\ hash_calls' = hash_calls + 1
    /\ LET out == CalculateFileHash(file_kind, file_bytes) IN
       IF out.raised
       THEN Fail(out.error) /\ UNCHANGED <<hashes, results>>
       ELSE /\ hashes' = out.value
            /\ results' = [file_info |-> WithHashes(results.file_info, out.value)]
            /\ pc' = "lookup"
            /\ UNCHANGED error
    /\ UNCHANGED <<api_key, env_key, file_kind, file_bytes, return_report, headers,
                   existing_report, analysis_id, max_attempts, attempt, waits,
                   response, poll_result, calls, returned, hash_seed, report,
                   prev_report, report_calls>>

\* lines 46-54: the report lookup and the branch on its result
LookupReport ==
    /\ pc = "lookup"
    /\ \E resp \in FailureResponses \cup OkResponses(FileReportBodies) :
         LET out == GetFileReport(resp) IN
         /\ response' = resp
         /\ calls' = Append(calls, Call("lookup", LookupKey(hashes), "", resp))
         /\ IF out.raised
            THEN Fail(out.error) /\ UNCHANGED <<existing_report, results>>
            ELSE /\ existing_report' = out.value
                 /\ UNCHANGED error
                 /\ IF ExistingReportFound(out.value)
                    THEN results' = WithStatic(results, out.value) /\ pc' = "behavior"
                    ELSE pc' = "upload" /\ UNCHANGED results
    /\ UNCHANGED <<api_key, env_key, file_kind, file_bytes, return_report, headers,
                   hashes, hash_calls, analysis_id, max_attempts, attempt, waits,
                   poll_result, returned, hash_seed, report, prev_report,
                   report_calls>>

\* lines 55-57 with a failed upload tried a second time
UploadRetried ==
    /\ pc = "upload"
    /\ \E resp \in FailureResponses \cup OkResponses(UploadBodies) :
         LET out == UploadFile(resp) IN
         /\ response' = resp
         /\ calls' = Append(calls, Call("upload", NoHash, "", resp))
         /\ IF out.raised
            THEN /\ IF \A i \in DOMAIN calls : calls[i].op # "upload"
                    THEN UNCHANGED <<pc, error>>
                    ELSE Fail(out.error)
                 /\ UNCHANGED analysis_id
            ELSE /\ analysis_id' = out.value.items.data.id
                 /\ pc' = "poll"
                 /\ UNCHANGED error
    /\ UNCHANGED <<api_key, env_key, file_kind, file_bytes, return_report, headers,
                   results, hashes, hash_calls, existing_report, max_attempts,
                   attempt, waits, poll_result, returned, hash_seed, report,
                   prev_report, report_calls>>

\* lines 55-57
Upload ==
    /\ pc = "upload"
    /\ \E resp \in FailureResponses \cup OkResponses(UploadBodies) :
         LET out == UploadFile(resp) IN
         /\ response' = resp
         /\ calls' = Append(calls, Call("upload", NoHash, "", resp))
         /\ IF out.raised
            THEN Fail(out.error) /\ UNCHANGED analysis_id
            ELSE /\ analysis_id' = out.value.items.data.id
                 /\ pc' = "poll"
                 /\ UNCHANGED error
    /\ UNCHANGED <<api_key, env_key, file_kind, file_bytes, return_report, headers,
                   results, hashes, hash_calls, existing_report, max_attempts,
                   attempt, waits, poll_result, returned, hash_seed, report,
                   prev_report, report_calls>>

\* lines 116-128: one iteration of the loop of _get_analysis_report
PollAttempt ==
    /\ pc = "poll"
    /\ AttemptsLeft(attempt, max_attempts)
    /\ \E resp \in FailureResponses \cup OkResponses(AnalysisBodies) :
         LET step == PollStep(resp) IN
         /\ response' = resp
         /\ calls' = Append(calls, Call("poll", NoHash, analysis_id, resp))
         /\ IF step = "return"
            THEN /\ poll_result' = resp.json
                 /\ pc' = "poll_returned"
                 /\ UNCHANGED <<attempt, waits, error>>
            ELSE IF step = "sleep"
            THEN /\ waits' = waits + 1
                 /\ attempt' = attempt + 1
                 /\ UNCHANGED <<pc, poll_result, error>>
            ELSE /\ Fail(RemoteError("Failed to get analysis report", resp))
                 /\ UNCHANGED <<attempt, waits, poll_result>>
    /\ UNCHANGED <<api_key, env_key, file_kind, file_bytes, return_report, headers,
                   results, hashes, hash_calls, existing_report, analysis_id,
                   max_attempts, returned, hash_seed, report, prev_report,
                   report_calls>>

\* line 130: the loop ran out
PollTimeout ==
    /\ pc = "poll"
    /\ ~AttemptsLeft(attempt, max_attempts)
    /\ Fail(TimeoutError(max_attempts))
    /\ UNCHANGED <<api_key, env_key, file_kind, file_bytes, return_report, headers,
                   results, hashes, hash_calls, existing_report, analysis_id,
                   max_attempts, attempt, waits, response, poll_result, calls,
                   returned, hash_seed, report, prev_report, report_calls>>

\* lines 60-61
StoreAnalysis ==
    /\ pc = "poll_returned"
    /\ results' = WithStatic(results, poll_result)
    /\ pc' = "behavior"
    /\ UNCHANGED <<api_key, env_key, file_kind, file_bytes, return_report, headers,
                   hashes, hash_calls, existing_report, analysis_id, max_attempts,
                   attempt, waits, response, poll_result, calls, error, returned,
                   hash_seed, report, prev_report, report_calls>>

\* lines 63-66
FetchBehavior ==
    /\ pc = "behavior"
    /\ \E resp \in FailureResponses \cup OkResponses(BehaviorBodies) :
         LET out == GetFileBehavior(resp) IN
         /\ response' = resp
         /\ calls' = Append(calls, Call("behavior", BehaviorKey(hashes), "", resp))
         /\ IF out.raised
            THEN Fail(out.error) /\ UNCHANGED results
            ELSE /\ results' = WithDynamic(results, out.value)
                 /\ pc' = "report"
                 /\ UNCHANGED error
    /\ UNCHANGED <<api_key, env_key, file_kind, file_bytes, return_report, headers,
                   hashes, hash_calls, existing_report, analysis_id, max_attempts,
                   attempt, waits, poll_result, returned, hash_seed, report,
                   prev_report, report_calls>>

\* lines 68-73
ReturnResults ==
    /\ pc = "report"
    /\ results' = (IF return_report
                   THEN WithReport(results, GenerateReport(results, hash_seed))
                   ELSE results)
    /\ returned' = results'
    /\ pc' = "done"
    /\ UNCHANGED <<api_key, env_key, file_kind, file_bytes, return_report, headers,
                   hashes, hash_calls, existing_report, analysis_id, max_attempts,
                   attempt, waits, response, poll_result, calls, error, hash_seed,
                   report, prev_report, report_calls>>

-----------------------------------------------------------------------------
(* Specification of dy_file: one call, from its arguments to its outcome *)

NoResults == [file_info |-> None]
DefaultSeed == <<FlagInjection, FlagPersistence, FlagNetwork>>
NoReport == << >>

Init ==
    /\ pc = "start"
    /\ api_key \in ApiKeyArgs
    /\ env_key \in EnvKeys
    /\ file_kind \in FileKinds
    /\ file_bytes \in (IF file_kind = "regular" THEN FileContents ELSE {<< >>})
    /\ return_report \in BOOLEAN
    /\ hash_seed \in Seeds
    /\ headers = "None"
    /\ results = NoResults
    /\ hashes = None
    /\ hash_calls = 0
    /\ existing_report = None
    /\ analysis_id = ""
    /\ max_attempts = DefaultMaxAttempts
    /\ attempt = 0
    /\ waits = 0
    /\ response = NoResponse
    /\ poll_result = None
    /\ calls = << >>
    /\ error = NoError
    /\ returned = None
    /\ report = NoReport
    /\ prev_report = NoReport
    /\ report_calls = 0

Next ==
    \/ ResolveApiKey
    \/ BuildFileInfo
    \/ CalculateHashes
    \/ LookupReport
    \/ Upload
    \/ PollAttempt
    \/ PollTimeout
    \/ StoreAnalysis
    \/ FetchBehavior
    \/ ReturnResults

Spec == Init /\ [][Next]_vars

-----------------------------------------------------------------------------
(* Specification of _get_analysis_report called on its own with max_attempts = N *)

InitPoller ==
    /\ pc = "poll"
    /\ max_attempts \in 0..MaxPollerAttempts
    /\ analysis_id \in AnalysisIds
    /\ api_key = "arg-key"
    /\ env_key = "None"
    /\ file_kind = "regular"
    /\ file_bytes = << >>
    /\ return_report = FALSE
    /\ hash_seed = DefaultSeed
    /\ headers = "arg-key"
    /\ results = NoResults
    /\ hashes = None
    /\ hash_calls = 0
    /\ existing_report = None
    /\ attempt = 0
    /\ waits = 0
    /\ response = NoResponse
    /\ poll_result = None
    /\ calls = << >>
    /\ error = NoError
    /\ returned = None
    /\ report = NoReport
    /\ prev_report = NoReport
    /\ report_calls = 0

NextPoller == PollAttempt \/ PollTimeout

SpecPoller == InitPoller /\ [][NextPoller]_vars

-----------------------------------------------------------------------------
(* Specification of _generate_report called on its own: the same             *)
(* analysis_results rendered twice, in one interpreter or in two             *)

SandboxSamples == {SandboxPlain, SandboxHttp, SandboxInjection, SandboxAutorun}

StatsInputs ==
    {[total |-> t, malicious |-> m, suspicious |-> s,
      undetected |-> IF t > m + s THEN t - m - s ELSE 0] :
        t \in 0..MaxTotal, m \in 0..MaxMalicious, s \in 0..MaxSuspicious}
    \cup {[malicious |-> m, suspicious |-> s] :
        m \in 0..MaxMalicious, s \in 0..MaxSuspicious}
    \cup {EmptyRec}

\* static_analysis values: with stats, with attributes but no stats, with data
\* but no attributes, and the empty dict
StaticInputs ==
    {Dict([data |-> [attributes |-> [stats |-> st]]]) : st \in StatsInputs}
    \cup {Dict([data |-> [attributes |-> [status |-> "completed"]]]),
          Dict([data |-> [id |-> "analysis-1"]]),
          EmptyObject}

\* records for the matching rules and the defaults, used in short reports
MatchingSamples == SandboxSamples \cup {SandboxStartup, SandboxMixedCase, SandboxBare}
\* records with lists of every length 0..MaxListLen, a different one per list
ListSamples ==
    {SandboxWithLists(m, (m + 1) % (MaxListLen + 1), (m + 4) % (MaxListLen + 1),
                      (m + 7) % (MaxListLen + 1), (m + 10) % (MaxListLen + 1)) :
        m \in 0..MaxListLen}

\* dynamic_analysis values: None, or {data: [...]} with 0..MaxSandboxes records
DynamicInputs ==
    {None} \cup
    {Dict([data |-> d]) :
        d \in UNION {[1..n -> SandboxSamples] : n \in 0..MaxSandboxes}}
    \cup {Dict([data |-> d]) :
        d \in UNION {[1..n -> MatchingSamples] : n \in 1..2}}
    \cup {Dict([data |-> <<sb>>]) : sb \in ListSamples}
    \cup {Dict([data |-> <<SandboxPlain, sb>>]) : sb \in ListSamples}

FewStaticInputs == {Dict([data |-> [attributes |-> [stats |-> StatsHigh]]])}
FewDynamicInputs == {None, Dict([data |-> <<SandboxHttp>>])}

SampleFileInfo ==
    WithHashes(FileInfo(<<7>>), CalculateFileHash("regular", <<7>>).value)

ReportInputs ==
    {[file_info |-> SampleFileInfo, static_analysis |-> st, dynamic_analysis |-> dy] :
        st \in StaticInputs, dy \in FewDynamicInputs}
    \cup {[file_info |-> SampleFileInfo, static_analysis |-> st, dynamic_analysis |-> dy] :
        st \in FewStaticInputs, dy \in DynamicInputs}
    \cup {[file_info |-> SampleFileInfo, dynamic_analysis |-> dy] : dy \in FewDynamicInputs}

InitReport ==
    /\ pc = "call-1"
    /\ results \in ReportInputs
    /\ hash_seed \in Seeds
    /\ api_key = "arg-key"
    /\ env_key = "None"
    /\ file_kind = "regular"
    /\ file_bytes = <<7>>
    /\ return_report = TRUE
    /\ headers = "arg-key"
    /\ hashes = None
    /\ hash_calls = 0
    /\ existing_report = None
    /\ analysis_id = ""
    /\ max_attempts = DefaultMaxAttempts
    /\ attempt = 0
    /\ waits = 0
    /\ response = NoResponse
    /\ poll_result = None
    /\ calls = << >>
    /\ error = NoError
    /\ returned = None
    /\ report = NoReport
    /\ prev_report = NoReport
    /\ report_calls = 0

\* report = _generate_report(analysis_results)
RenderReport ==
    /\ pc \in {"call-1", "between", "call-2"}
    /\ prev_report' = report
    /\ report' = GenerateReport(results, hash_seed)
    /\ report_calls' = report_calls + 1
    /\ pc' = (IF pc = "call-1" THEN "between" ELSE "finished")
    /\ UNCHANGED <<api_key, env_key, file_kind, file_bytes, return_report, headers,
                   results, hashes, hash_calls, existing_report, analysis_id,
                   max_attempts, attempt, waits, response, poll_result, calls,
                   error, returned, hash_seed>>

\* the second call is made by a new interpreter process, whose hash seed is
\* drawn afresh (PYTHONHASHSEED unset)
RestartInterpreter ==
    /\ pc = "between"
    /\ hash_seed' \in Seeds
    /\ pc' = "call-2"
    /\ UNCHANGED <<api_key, env_key, file_kind, file_bytes, return_report, headers,
                   results, hashes, hash_calls, existing_report, analysis_id,
                   max_attempts, attempt, waits, response, poll_result, calls,
                   error, returned, report, prev_report, report_calls>>

NextReport == RenderReport \/ RestartInterpreter

SpecReport == InitReport /\ [][NextReport]_vars

-----------------------------------------------------------------------------
(* Vocabulary of the properties *)

Terminal == pc \in {"done", "failed"}
CallsOf(op) == {i \in DOMAIN calls : calls[i].op = op}
LastCall == calls[Len(calls)]
\* a response that is neither a success nor an expected absence
FailedCall(c) ==
    /\ c.status_code # 200
    /\ ~(c.status_code = 404 /\ c.op \in {"lookup", "behavior"})
LookupAnswered(status) == Len(calls) >= 1 /\ calls[1].op = "lookup" /\ calls[1].status_code = status

-----------------------------------------------------------------------------
(* C1 *)

\* C1: lookup routing in dy_file.  A run whose report lookup answered 404 issues
\* exactly one upload, and its status polls (at least one when the upload
\* succeeded) directly follow that upload as one sequence; a run whose report
\* lookup answered 200 issues no upload, whatever body the 200 carried.
C1_LookupRouting ==
    /\ (Terminal /\ LookupAnswered(404)) =>
          /\ CallsOf("upload") = {2}
          /\ \E n \in 0..Len(calls) : CallsOf("poll") = 3..(2 + n)
          /\ (calls[2].status_code = 200 => CallsOf("poll") # {})
    /\ LookupAnswered(200) => CallsOf("upload") = {}

\* the half of C1 about a missing report, which the code keeps
C1_NotFoundUploadsOnce ==
    (Terminal /\ LookupAnswered(404)) =>
        /\ CallsOf("upload") = {2}
        /\ \E n \in 0..Len(calls) : CallsOf("poll") = 3..(2 + n)
        /\ (calls[2].status_code = 200 => CallsOf("poll") # {})

-----------------------------------------------------------------------------
(* C2 *)

PendingPoll(c) == c.op = "poll" /\ c.status_code = 200 /\ ~c.completed

\* C2: poller termination in _get_analysis_report, for max_attempts = N.  The
\* poller never issues more than N status queries, and while it runs every
\* query so far was a 200 that did not report "completed".  When it fails with
\* the timeout error it has issued exactly N queries, none of which reported
\* "completed".  When it returns, the query it returns after is the k-th
\* (k <= N), the first to report "completed", no query follows it, and the
\* value returned is that response's payload.  If every response was a 200 and
\* none reported "completed", the only way it ends is the timeout error.
C2_PollerTermination ==
    /\ Len(calls) <= max_attempts
    /\ pc = "poll" =>
          /\ Len(calls) = attempt
          /\ \A i \in DOMAIN calls : PendingPoll(calls[i])
    /\ error.type = "TimeoutError" =>
          /\ pc = "failed"
          /\ error.max_attempts = max_attempts
          /\ Len(calls) = max_attempts
          /\ \A i \in DOMAIN calls : PendingPoll(calls[i])
    /\ pc = "poll_returned" =>
          /\ Len(calls) >= 1
          /\ LastCall.op = "poll" /\ LastCall.status_code = 200 /\ LastCall.completed
          /\ \A i \in 1..(Len(calls) - 1) : PendingPoll(calls[i])
          /\ AnalysisCompleted(response)
          /\ poll_result = response.json
          /\ error = NoError
    /\ (pc = "failed" /\ \A i \in DOMAIN calls : PendingPoll(calls[i])) =>
          error = TimeoutError(max_attempts)
    /\ pc \in {"poll", "poll_returned", "failed"}

\* the third of four permitted queries is the first to report "completed"
C2_Witness ==
    /\ pc = "poll_returned"
    /\ max_attempts = 4
    /\ Len(calls) = 3
    /\ poll_result.items.data.attributes.status = "completed"

-----------------------------------------------------------------------------
(* C3 *)

\* C3: when the report lookup answers with a status other than 200 and 404,
\* dy_file fails with the error that carries that status and the response
\* body, and the lookup is the only remote request of the run: no upload, no
\* status poll and no behaviour fetch is issued.
C3_LookupFailureAborts ==
    (Len(calls) >= 1 /\ calls[1].status_code \notin {200, 404}) =>
        /\ pc = "failed"
        /\ error.type = "Exception"
        /\ error.status_code = calls[1].status_code
        /\ error.text = response.text
        /\ Len(calls) = 1
        /\ calls[1].op = "lookup"
        /\ returned = None

C3_Witness ==
    /\ pc = "failed"
    /\ Len(calls) = 1
    /\ calls[1].op = "lookup"
    /\ calls[1].status_code = 500
    /\ error.text = "body-2"

-----------------------------------------------------------------------------
(* C4 *)

\* C4: no partial result on error.  dy_file has returned a value only if no
\* error was raised and none of the requests it issued failed (a 404 on the
\* lookup or on the behaviour fetch is not a failure).  A failed request is
\* the last request of its run and leaves the run failed with nothing
\* returned; so does an exhausted poll budget and every other error.
C4_NoPartialResult ==
    /\ returned # None =>
          /\ pc = "done"
          /\ error = NoError
          /\ \A i \in DOMAIN calls : ~FailedCall(calls[i])
    /\ \A i \in DOMAIN calls :
          FailedCall(calls[i]) =>
              /\ i = Len(calls)
              /\ pc = "failed"
              /\ error.type = "Exception"
              /\ returned = None
    /\ error # NoError => pc = "failed" /\ returned = None
    /\ error.type = "TimeoutError" =>
          /\ LastCall.op = "poll"
          /\ CallsOf("behavior") = {}
    /\ pc = "done" => returned = results

\* the behaviour fetch fails after the static report was stored
C4_Witness ==
    /\ pc = "failed"
    /\ Len(calls) >= 1
    /\ LastCall.op = "behavior"
    /\ LastCall.status_code = 500
    /\ "static_analysis" \in DOMAIN results
    /\ returned = None

-----------------------------------------------------------------------------
(* C5 *)

\* the static report the run obtained: the cached one, else the polled one
StaticObtained == IF Truthy(existing_report) THEN existing_report ELSE poll_result
BehaviorAnswered(status) ==
    Len(calls) >= 1 /\ LastCall.op = "behavior" /\ LastCall.status_code = status

\* C5: behaviour absence is not an error.  After a 404 on the behaviour fetch
\* no error is raised, dynamic_analysis is None, static_analysis is the
\* static report obtained before the fetch, the report text can be rendered
\* from that result, and what the run returns is that result; after any status other than 200 and 404 the run has
\* failed and returned nothing.
C5_BehaviorAbsence ==
    /\ BehaviorAnswered(404) =>
          /\ error = NoError
          /\ pc \in {"report", "done"}
          /\ results.dynamic_analysis = None
          /\ results.static_analysis = StaticObtained
          /\ (pc = "report" => Len(GenerateReport(results, hash_seed)) > 0)
          /\ (pc = "done" => returned = results)
    /\ (Len(calls) >= 1 /\ LastCall.op = "behavior"
            /\ LastCall.status_code \notin {200, 404}) =>
          /\ pc = "failed"
          /\ error.type = "Exception"
          /\ error.status_code = LastCall.status_code
          /\ returned = None

\* a run with a rendered report that completed after a 404 on the behaviour fetch
C5_Witness ==
    /\ pc = "done"
    /\ BehaviorAnswered(404)
    /\ return_report
    /\ returned.dynamic_analysis = None
    /\ "report" \in DOMAIN returned

-----------------------------------------------------------------------------
(* C6 *)

\* C6: a failed status query is fatal and not retried.  In
\* _get_analysis_report a status query answered with a non-2xx status is the
\* last query issued; the poller has failed with the error carrying that
\* status, and the only waits performed are those that followed the earlier,
\* pending, queries.
C6_PollFailureFatal ==
    \A i \in DOMAIN calls :
        (calls[i].op = "poll" /\ calls[i].status_code \notin 200..299) =>
            /\ i = Len(calls)
            /\ pc = "failed"
            /\ error.type = "Exception"
            /\ error.status_code = calls[i].status_code
            /\ error.text = response.text
            /\ waits = i - 1
            /\ attempt = i - 1

\* the second of four permitted queries fails
C6_Witness ==
    /\ pc = "failed"
    /\ max_attempts = 4
    /\ Len(calls) = 2
    /\ calls[2].op = "poll"
    /\ calls[2].status_code = 500
    /\ waits = 1

-----------------------------------------------------------------------------
(* C7 *)

\* C7: local failures precede any remote interaction.  A run with no API key
\* (api_key None and VT_API_KEY unset) issues no remote request and, once past
\* its first step, has failed with the missing-key error; a run whose path is
\* not an existing regular file issues no remote request and never reaches
\* the report lookup or any later stage.
C7_LocalFailuresFirst ==
    /\ (api_key = "None" /\ env_key = "None") =>
          /\ calls = << >>
          /\ pc \in {"start", "failed"}
          /\ (pc = "failed" => error = ValueError)
    /\ file_kind # "regular" =>
          /\ calls = << >>
          /\ pc \in {"start", "file_info", "hash", "failed"}
          /\ hashes = None
    /\ calls # << >> => headers # "None" /\ hashes # None

\* a directory passes os.path.getsize and is refused by _calculate_file_hash
C7_Witness ==
    /\ pc = "failed"
    /\ file_kind = "directory"
    /\ error = FileNotFoundError
    /\ hash_calls = 1
    /\ calls = << >>

-----------------------------------------------------------------------------
(* Vocabulary of the properties of _generate_report *)

Rendered == report_calls >= 1
LinesOf(kind) == {i \in DOMAIN report : report[i].k = kind}
\* the texts of the lines of one kind, in the order of the report
ValuesOf(kind) ==
    LET lines == SelectSeq(report, LAMBDA e : e.k = kind)
    IN [i \in DOMAIN lines |-> lines[i].v]

\* the stats object of the input, empty when any level down to it is missing
InputStats ==
    IF "static_analysis" \notin DOMAIN results THEN EmptyRec
    ELSE LET static == results.static_analysis.items IN
         IF "data" \notin DOMAIN static THEN EmptyRec
         ELSE IF "attributes" \notin DOMAIN static.data THEN EmptyRec
         ELSE IF "stats" \notin DOMAIN static.data.attributes THEN EmptyRec
         ELSE static.data.attributes.stats
InputStat(key) == IF key \in DOMAIN InputStats THEN InputStats[key] ELSE 0

\* the sandbox records of the input, when a behaviour report is present
BehaviorPresent == results.dynamic_analysis # None
InputSandboxes == results.dynamic_analysis.items.data

-----------------------------------------------------------------------------
(* C8 *)

C8_BoundaryCases ==
    Rendered =>
        LET verdict == report[Len(report)].v IN
        /\ (InputStat("total") = 10 /\ InputStat("malicious") = 5
                /\ InputStat("suspicious") = 0) => verdict = VerdictHigh
        /\ (InputStat("total") = 10 /\ InputStat("malicious") = 0
                /\ InputStat("suspicious") = 0) => verdict = VerdictLow
        /\ ("total" \notin DOMAIN InputStats) => verdict = VerdictUnknown

-----------------------------------------------------------------------------
(* C9 *)

\* C9: aggregator determinism.  _generate_report applied twice to identical
\* inputs yields identical report text, the order of the behavioural-summary
\* flag lines included.
C9_Deterministic ==
    report_calls = 2 => report = prev_report

\* what the code keeps: two renderings of the same input differ at most in
\* the order of the flag lines of the behavioural summary
C9_SameUpToFlagOrder ==
    report_calls = 2 =>
        /\ Len(report) = Len(prev_report)
        /\ \A i \in DOMAIN report :
              \/ report[i] = prev_report[i]
              \/ report[i].k = "behavior" /\ prev_report[i].k = "behavior"
        /\ {report[i].v : i \in LinesOf("behavior")}
              = {prev_report[i].v : i \in {j \in DOMAIN prev_report :
                                              prev_report[j].k = "behavior"}}

-----------------------------------------------------------------------------
(* C10 *)

\* the sandbox identifier that the block of the i-th record carries
SandboxNameOf(sandboxes, i) ==
    IF "attributes" \in DOMAIN sandboxes[i]
          /\ "sandbox_name" \in DOMAIN sandboxes[i].attributes
    THEN sandboxes[i].attributes.sandbox_name
    ELSE "Sandbox " \o ToString(i)

\* C10: sandbox truncation in _generate_report.  For a behaviour report with n
\* sandbox records the report has exactly min(n, 3) sandbox detail blocks,
\* those of the first min(n, 3) records in their order, while the flag scan
\* ranges over all n records: a flag whose condition any of the n records
\* meets has its line in the behavioural summary.
C10_SandboxTruncation ==
    (Rendered /\ BehaviorPresent) =>
        LET n == Len(InputSandboxes)
            shown == IF n < 3 THEN n ELSE 3
        IN /\ Cardinality(LinesOf("Sandbox")) = shown
           /\ \A i \in 1..shown :
                 ValuesOf("Sandbox")[i] = SandboxNameOf(InputSandboxes, i)
           /\ Cardinality({i \in DOMAIN report :
                              report[i] = [k |-> "text", v |-> "-*40"]}) = shown
           /\ \A f \in Flags :
                 (\E i \in 1..n : f \in Range(SandboxBehaviors(InputSandboxes[i])))
                     => \E j \in LinesOf("behavior") : report[j].v = f

\* four records, of which only the fourth made an HTTP request: three blocks
\* are rendered and the network flag is raised
C10_Witness ==
    /\ Rendered
    /\ BehaviorPresent
    /\ Len(InputSandboxes) = 4
    /\ \A i \in 1..3 : SandboxBehaviors(InputSandboxes[i]) = << >>
    /\ InputSandboxes[4] = SandboxHttp
    /\ Cardinality(LinesOf("Sandbox")) = 3
    /\ \E j \in LinesOf("behavior") : report[j].v = FlagNetwork

-----------------------------------------------------------------------------
(* C11 *)

\* two characters that are the same letter, whatever their case
SameLetter(a, b) ==
    \/ a = b
    \/ \E i \in DOMAIN UpperCase : {a, b} = {UpperCase[i], LowerCase[i]}
\* str contains needle, case-insensitively
ContainsIgnoreCase(needle, str) ==
    \E i \in 1..(Len(str) - Len(needle) + 1) :
        \A j \in 1..Len(needle) : SameLetter(needle[j], str[i + j - 1])

\* a list of the input record sb, empty when a key on the way to it is missing
InputList(sb, section, key) ==
    IF "attributes" \notin DOMAIN sb THEN << >>
    ELSE IF section = "" THEN
           (IF key \in DOMAIN sb.attributes THEN sb.attributes[key] ELSE << >>)
    ELSE IF section \notin DOMAIN sb.attributes THEN << >>
    ELSE IF key \notin DOMAIN sb.attributes[section] THEN << >>
    ELSE sb.attributes[section][key]

InjectionSeen ==
    \E i \in DOMAIN InputSandboxes :
        LET processes == InputList(InputSandboxes[i], "", "processes") IN
        \E j \in DOMAIN processes :
            /\ "name" \in DOMAIN processes[j]
            /\ ContainsIgnoreCase(StrInjection, processes[j].name)
PersistenceSeen ==
    \E i \in DOMAIN InputSandboxes :
        LET keys_set == InputList(InputSandboxes[i], "registry", "keys_set") IN
        \E j \in DOMAIN keys_set :
            \/ ContainsIgnoreCase(StrRun, keys_set[j])
            \/ ContainsIgnoreCase(StrStartup, keys_set[j])
NetworkSeen ==
    \E i \in DOMAIN InputSandboxes :
        Len(InputList(InputSandboxes[i], "network", "http")) >= 1

FlagLines(f) == {i \in LinesOf("behavior") : report[i].v = f}
NoBehaviorLines == {i \in DOMAIN report : report[i] = [k |-> "text", v |-> NoBehaviors]}

\* C11: behavioural flags in _generate_report, for a present non-empty
\* behaviour report.  The "Process injection detected" line is emitted once if
\* some process name of some sandbox record contains "injection"
\* case-insensitively and not at all otherwise; the persistence line once if
\* some written registry key contains "run" or "startup" case-insensitively
\* and not at all otherwise; "Network communication detected" once if some
\* sandbox record has at least one HTTP request and not at all otherwise; the
\* "No significant suspicious behaviors detected" line is emitted (once) iff
\* none of the three conditions holds; no other flag line is emitted.
C11_BehaviorFlags ==
    (Rendered /\ BehaviorPresent /\ Len(InputSandboxes) >= 1) =>
        /\ Cardinality(FlagLines(FlagInjection)) = (IF InjectionSeen THEN 1 ELSE 0)
        /\ Cardinality(FlagLines(FlagPersistence)) = (IF PersistenceSeen THEN 1 ELSE 0)
        /\ Cardinality(FlagLines(FlagNetwork)) = (IF NetworkSeen THEN 1 ELSE 0)
        /\ Cardinality(NoBehaviorLines) =
              (IF InjectionSeen \/ PersistenceSeen \/ NetworkSeen THEN 0 ELSE 1)
        /\ \A i \in LinesOf("behavior") : report[i].v \in Flags

\* two sandbox records that both made an HTTP request: one network line
C11_Witness ==
    /\ Rendered
    /\ BehaviorPresent
    /\ Len(InputSandboxes) = 2
    /\ InputSandboxes[1] = SandboxHttp
    /\ InputSandboxes[2] = SandboxHttp
    /\ Cardinality(FlagLines(FlagNetwork)) = 1
    /\ LinesOf("behavior") = FlagLines(FlagNetwork)

-----------------------------------------------------------------------------
(* C12 *)

TextLines(str) == {i \in DOMAIN report : report[i] = [k |-> "text", v |-> str]}
DetailKinds == {"Sandbox", "process", "dns", "http", "registry", "file"}
DetailLines == {i \in DOMAIN report : report[i].k \in DetailKinds}
ListHeadings ==
    {"Processes Created:", "DNS Requests:", "HTTP Requests:",
     "Registry Keys Modified:", "Files Written:"}
HeadingLines == UNION {TextLines(h) : h \in ListHeadings}
SummaryLines ==
    TextLines("Behavioral Summary:") \cup LinesOf("behavior") \cup NoBehaviorLines

\* C12: behaviour absence rendering.  When the behaviour report is absent,
\* _generate_report emits the "No dynamic analysis data available" line
\* exactly once and emits no sandbox, process, DNS, HTTP, registry or file
\* line, no list heading and no behavioural summary; when the behaviour report
\* is present with at least one record, that line is not emitted.
C12_AbsenceRendering ==
    /\ (Rendered /\ ~BehaviorPresent) =>
          /\ Cardinality(TextLines(NoDynamicData)) = 1
          /\ DetailLines = {}
          /\ HeadingLines = {}
          /\ SummaryLines = {}
    /\ (Rendered /\ BehaviorPresent /\ Len(InputSandboxes) >= 1) =>
          TextLines(NoDynamicData) = {}

\* a report rendered without a behaviour report
C12_Witness ==
    /\ Rendered
    /\ ~BehaviorPresent
    /\ TextLines(NoDynamicData) # {}
    /\ LinesOf("Detection Rate") # {}

-----------------------------------------------------------------------------
(* C13 *)

\* the digests of the analysed file
FileHashes ==
    [md5 |-> Hexdigest("md5", file_bytes),
     sha1 |-> Hexdigest("sha1", file_bytes),
     sha256 |-> Hexdigest("sha256", file_bytes)]
HashKeyedCalls == CallsOf("lookup") \cup CallsOf("behavior")

\* C13: hash authority.  In every run of dy_file the hash triple is computed
\* exactly once and before any remote call, it keeps the value computed from
\* the file from then on, the report lookup and the behaviour fetch are both
\* keyed by its SHA-256, and the returned result carries the same triple in
\* file_info.hashes.
C13_HashAuthority ==
    /\ hash_calls <= 1
    /\ calls # << >> => hash_calls = 1
    /\ hashes # None => (hash_calls = 1 /\ hashes = FileHashes)
    /\ pc \in {"lookup", "upload", "poll", "poll_returned", "behavior", "report", "done"}
          => (hashes # None /\ results.file_info.hashes = hashes)
    /\ \A i \in HashKeyedCalls :
          hashes # None /\ calls[i].file_hash = hashes.sha256
    /\ pc = "done" => returned.file_info.hashes.sha256 = hashes.sha256

\* a finished run of a non-empty file with both hash-keyed calls made
C13_Witness ==
    /\ pc = "done"
    /\ file_bytes # << >>
    /\ CallsOf("lookup") # {}
    /\ CallsOf("behavior") # {}
    /\ returned.file_info.hashes = FileHashes

-----------------------------------------------------------------------------
(* C14 *)

TimedOut == pc = "failed" /\ error.type = "TimeoutError"
PendingPolls == {i \in CallsOf("poll") : PendingPoll(calls[i])}

\* C14: no wait after the last attempt.  A call of _get_analysis_report that
\* times out after N >= 1 attempts has waited exactly N - 1 times: the wait
\* occurs only between two consecutive attempts, not after the last one.
C14_NoWaitAfterLast ==
    (TimedOut /\ max_attempts >= 1) =>
        /\ Cardinality(CallsOf("poll")) = max_attempts
        /\ waits = max_attempts - 1

\* what the loop does: every pending answer is followed by a wait, the last
\* one included, so a timed-out call has waited once per attempt
C14_WaitPerPendingAttempt ==
    /\ waits = Cardinality(PendingPolls)
    /\ TimedOut => waits = max_attempts

-----------------------------------------------------------------------------
(* C15 *)

\* the position of a remote call in the pipeline of dy_file
StageRank(op) ==
    CASE op = "lookup" -> 1
      [] op = "upload" -> 2
      [] op = "poll" -> 3
      [] op = "behavior" -> 4

\* the calls so far are in pipeline order, the lookup is the first and only one
CallsInStageOrder ==
    /\ \A i, j \in DOMAIN calls :
          i < j => StageRank(calls[i].op) <= StageRank(calls[j].op)
    /\ Cardinality(CallsOf("lookup")) <= 1
    /\ Cardinality(CallsOf("upload")) <= 1
    /\ Cardinality(CallsOf("behavior")) <= 1
    /\ calls # << >> => calls[1].op = "lookup"
    /\ CallsOf("poll") # {} =>
          /\ CallsOf("upload") = {2} /\ calls[2].status_code = 200
          /\ \A i \in CallsOf("poll") : \A j \in 3..(i - 1) : PendingPoll(calls[j])
    /\ pc \in {"upload", "poll", "poll_returned", "behavior", "report", "done"}
          => Cardinality(CallsOf("lookup")) = 1

\* the behaviour fetch is issued once, directly after the call that yielded the
\* static report: the lookup that found it, or the poll that reported completion
BehaviorAfterStatic ==
    /\ \A i \in CallsOf("behavior") :
          /\ i >= 2
          /\ \/ i = 2 /\ calls[1].op = "lookup" /\ calls[1].status_code = 200
             \/ i > 2 /\ calls[i - 1].op = "poll" /\ calls[i - 1].completed
    /\ pc = "behavior" => (CallsOf("behavior") = {} /\ results.static_analysis = StaticObtained)
    /\ pc \in {"report", "done"} =>
          /\ CallsOf("behavior") = {Len(calls)}
          /\ results.static_analysis = StaticObtained
          /\ Truthy(StaticObtained)

\* the report text exists only in a run whose behaviour fetch has returned
ReportAfterBehavior ==
    /\ pc # "done" => (returned = None /\ "report" \notin DOMAIN results)
    /\ pc = "done" =>
          /\ LastCall.op = "behavior" /\ LastCall.status_code \in {200, 404}
          /\ ("report" \in DOMAIN returned) = return_report
          /\ return_report =>
                returned.report =
                    GenerateReport(WithDynamic(returned, returned.dynamic_analysis),
                                   hash_seed)

\* the report lookup reported the file as unknown (the 404 sentinel)
LookupMissed == LookupAnswered(404)
\* line 50: the lookup result is falsy, i.e. a 404 or a 200 with an empty body
LookupResultFalsy ==
    Len(calls) >= 1 /\ calls[1].op = "lookup" /\ calls[1].status_code \in {200, 404}
    /\ ~ExistingReportFound(existing_report)

\* C15: strict stage ordering.  In every run of dy_file the remote calls occur
\* in the order report lookup, upload, status polls, behaviour fetch; the
\* upload and the polls occur only when the lookup missed; there is exactly one
\* lookup in a run that reaches the remote stage; the behaviour fetch is
\* issued exactly once and only after a static report was obtained from the
\* lookup or from a completed poll; and the report text is generated only
\* after the behaviour fetch has returned.
C15_StageOrdering ==
    /\ CallsInStageOrder
    /\ (CallsOf("upload") \cup CallsOf("poll")) # {} => LookupMissed
    /\ BehaviorAfterStatic
    /\ ReportAfterBehavior

\* the ordering the code keeps: the same with the upload conditioned on the
\* test of line 50 instead of on a miss
C15_OrderingOnFalsyLookup ==
    /\ CallsInStageOrder
    /\ (CallsOf("upload") \cup CallsOf("poll")) # {} => LookupResultFalsy
    /\ BehaviorAfterStatic
    /\ ReportAfterBehavior

-----------------------------------------------------------------------------
(* C16 *)

\* a status outside 200..299
NotSuccess(status) == status < 200 \/ status > 299
RejectedUploads == {i \in CallsOf("upload") : NotSuccess(calls[i].status_code)}

\* C16: the upload is never retried.  A run of dy_file issues at most one
\* upload; when the upload answers with a status outside 2xx the run has
\* failed with an error that carries that status and the response body, the
\* upload is the last request of the run, and no status poll and no behaviour
\* fetch was issued.
C16_UploadNotRetried ==
    /\ Cardinality(CallsOf("upload")) <= 1
    /\ \A i \in RejectedUploads :
          /\ pc = "failed"
          /\ error.type = "Exception"
          /\ error.message = "File upload failed"
          /\ error.status_code = calls[i].status_code
          /\ error.text = response.text
          /\ response.status_code = calls[i].status_code
          /\ i = Len(calls)
          /\ CallsOf("poll") = {}
          /\ CallsOf("behavior") = {}
          /\ returned = None

\* a run whose upload was answered 500 with the second body
C16_Witness ==
    /\ pc = "failed"
    /\ CallsOf("upload") = {2}
    /\ calls[2].status_code = 500
    /\ error.status_code = 500
    /\ error.text = "body-2"

-----------------------------------------------------------------------------
(* C17 *)

\* the five lists of a sandbox record: where they are in the record, the kind
\* of their entry lines and their heading
DetailLists ==
    {[section |-> "", key |-> "processes", kind |-> "process",
      heading |-> "Processes Created:"],
     [section |-> "network", key |-> "dns", kind |-> "dns",
      heading |-> "DNS Requests:"],
     [section |-> "network", key |-> "http", kind |-> "http",
      heading |-> "HTTP Requests:"],
     [section |-> "registry", key |-> "keys_set", kind |-> "registry",
      heading |-> "Registry Keys Modified:"],
     [section |-> "files", key |-> "written", kind |-> "file",
      heading |-> "Files Written:"]}

\* what the entry line of one list item shows
Rendering(kind, item) ==
    CASE kind = "process" ->
            [name |-> Get(item, "name", StrUnknown),
             pid |-> IF "pid" \in DOMAIN item THEN ToString(item.pid) ELSE "N/A"]
      [] kind = "dns" -> Get(item, "hostname", "Unknown")
      [] kind = "http" -> Get(item, "url", "Unknown")
      [] OTHER -> item

\* the b-th detail block of the report: from its "Sandbox:" line to the line
\* of dashes that closes it
BlockStart(b) ==
    LET starts == LinesOf("Sandbox")
    IN CHOOSE i \in starts : Cardinality({j \in starts : j <= i}) = b
BlockEnd(start) ==
    LET closers == {i \in (start + 1)..Len(report) :
                       report[i].k = "text" /\ report[i].v = "-*40"}
    IN CHOOSE i \in closers : \A j \in closers : i <= j
BlockOf(b) ==
    LET start == BlockStart(b) IN SubSeq(report, start, BlockEnd(start))
BlockValues(block, kind) ==
    LET lines == SelectSeq(block, LAMBDA e : e.k = kind)
    IN [i \in DOMAIN lines |-> lines[i].v]
BlockHeadings(block, heading) ==
    {i \in DOMAIN block : block[i].k = "text" /\ block[i].v = heading}

\* C17: bounded detail lists.  In the detail block of each rendered sandbox
\* record, each of the five lists with m entries in the input has exactly
\* min(m, 10) entry lines, which are the first entries in their order, and its
\* heading appears once when m > 0 and not at all when m = 0; the number of
\* detail lines of the whole report is therefore at most 3 * (1 + 5 * 10).
C17_BoundedLists ==
    (Rendered /\ BehaviorPresent /\ Len(InputSandboxes) >= 1) =>
        LET shown == Min(Len(InputSandboxes), SandboxLimit) IN
        /\ Cardinality(LinesOf("Sandbox")) = shown
        /\ \A b \in 1..shown :
              LET block == BlockOf(b) IN
              \A l \in DetailLists :
                 LET items == InputList(InputSandboxes[b], l.section, l.key)
                     m == Len(items)
                 IN /\ BlockValues(block, l.kind) =
                          [j \in 1..Min(m, 10) |-> Rendering(l.kind, items[j])]
                    /\ Cardinality(BlockHeadings(block, l.heading)) =
                          (IF m > 0 THEN 1 ELSE 0)
        /\ Cardinality(DetailLines) <= 3 * (1 + 5 * 10)

\* a rendered record with twelve processes, no DNS request and six registry keys
C17_Witness ==
    /\ Rendered /\ BehaviorPresent /\ Len(InputSandboxes) = 1
    /\ Len(InputList(InputSandboxes[1], "", "processes")) = 12
    /\ Len(InputList(InputSandboxes[1], "network", "dns")) = 0
    /\ Len(InputList(InputSandboxes[1], "registry", "keys_set")) = 6
    /\ Cardinality(LinesOf("process")) = 10
    /\ Cardinality(LinesOf("registry")) = 6
    /\ LinesOf("dns") = {}

-----------------------------------------------------------------------------
(* C18 *)

\* the behaviour report is present and its record list is empty: {"data": []}
BehaviorEmpty == BehaviorPresent /\ InputSandboxes = << >>
SectionHeaders == TextLines("DYNAMIC ANALYSIS RESULTS")
NothingDynamicRendered == LinesOf("Sandbox") = {} /\ SummaryLines = {}

\* C18: the dynamic section is always accounted for.  Whatever the behaviour
\* input is (absent, present with an empty record list, present with
\* records), the report has a "DYNAMIC ANALYSIS RESULTS" section, and it has
\* the "No dynamic analysis data available" line exactly when it has no
\* sandbox detail block and no behavioural summary.
C18_DynamicSectionAccounted ==
    Rendered =>
        /\ Cardinality(SectionHeaders) = 1
        /\ Cardinality(TextLines(NoDynamicData)) =
              (IF NothingDynamicRendered THEN 1 ELSE 0)

\* what the code does: the claim holds for every input but the empty record
\* list, for which the report has no dynamic section and no line saying so
C18_EmptyListUnaccounted ==
    /\ (Rendered /\ ~BehaviorEmpty) =>
          /\ Cardinality(SectionHeaders) = 1
          /\ Cardinality(TextLines(NoDynamicData)) =
                (IF NothingDynamicRendered THEN 1 ELSE 0)
    /\ (Rendered /\ BehaviorEmpty) =>
          /\ SectionHeaders = {}
          /\ TextLines(NoDynamicData) = {}
          /\ NothingDynamicRendered

====
